---- MODULE Spec2Model ----
(***************************************************************************)
(* A model of the tinkering-audio synthesiser: the ADSR envelope           *)
(* (envelope.py), the tone generators (tone.py) and the peaking biquad     *)
(* filter (filter.py).                                                     *)
(*                                                                         *)
(* Numbers.  The envelope and the oscillator phase are computed on exact   *)
(* rationals [n, d] (d > 0, lowest terms).  The filter, whose difference   *)
(* equation is truncated by int(), is computed in a binary floating-point  *)
(* format with FracBits fraction bits and a MantBits-bit significand,      *)
(* every operation rounded to nearest, ties to even, as IEEE-754 does.     *)
(***************************************************************************)
EXTENDS Integers, Sequences, FiniteSets, TLC

VARIABLES
    \* --- envelope evaluation (envelope.py) ---
    eEnv,        \* the Envelope object
    eBase,       \* default_value passed to get_value
    eTotal,      \* number_of_samples passed to get_value
    eIndex,      \* the next sample_index to be queried
    eLast,       \* the last get_value call: [index, phase, value], or NoCall
    ePrev,       \* the call before it
    \* --- one filtering pass (filter.py) ---
    flt,         \* the Peaking filter
    ref,         \* a Peaking filter constructed afresh when flt's memory is reset
    fTotal,      \* sample_total the caller passes to process
    fCalls,      \* calls of flt.process so far
    fMode,       \* "stream", or "restarted" once reset_memory was called
    fLast,       \* the last call of process: input, outputs, what raised
    \* --- tone generation (tone.py) ---
    tones,           \* the Tone objects, by name
    tSound,          \* the Sound the tones are written to
    tPc,             \* "idle", "running", "done" or "raised"
    tCur,            \* the tone being generated
    tMode,           \* "add" (add_tone) or "combine" (combine_tone)
    tStart,          \* combine_tone: the start index
    tIndex,          \* combine_tone: its local index
    tCount,          \* __generate: its local sample_count
    tI,              \* __generate: its loop variable i
    tPhase,          \* __generate: its local previous_phase
    tBuf0,           \* the samples of the sound when the pass began
    tGen,            \* the samples the pass has yielded
    tFirst,          \* per tone, the samples of its first finished pass
    tRuns,           \* passes finished
    tLast            \* the last _create_sample: envelope total, harmonic increments

envVars == << eEnv, eBase, eTotal, eIndex, eLast, ePrev >>
filterVars == << flt, ref, fTotal, fCalls, fMode, fLast >>
toneVars == << tones, tSound, tPc, tCur, tMode, tStart, tIndex, tCount, tI,
               tPhase, tBuf0, tGen, tFirst, tRuns, tLast >>
vars == << envVars, filterVars, toneVars >>

\* ------------------------------------------------------------------------
\* Bounds of the model
\* ------------------------------------------------------------------------
PropDen == 4        \* phase proportions are k / PropDen
MaxTotal == 5       \* number_of_samples ranges over k / 2, k in 1 .. 2 * MaxTotal
MaxRuns == 3        \* generation passes in one behaviour
MaxStart == 4       \* combine_tone starts at sample 0 .. MaxStart
FracBits == 10      \* a float is a multiple of 2^-FracBits
MantBits == 10      \* significand bits of a float
MaxCalls == 4       \* calls of Filter.process in one behaviour

\* ------------------------------------------------------------------------
\* Exact rationals
\* ------------------------------------------------------------------------
Abs(x) == IF x < 0 THEN -x ELSE x

GCD[a \in Nat, b \in Nat] == IF b = 0 THEN a ELSE GCD[b, a % b]

\* n / d in lowest terms, the denominator positive
Normalised[n \in Int, d \in Int] ==
    LET s == IF d < 0 THEN -1 ELSE 1
        g == GCD[Abs(n), Abs(d)]
    IN  [n |-> (s * n) \div g, d |-> (s * d) \div g]

R(n, d) == Normalised[n, d]

Zero == [n |-> 0, d |-> 1]
One == [n |-> 1, d |-> 1]
FromInt(k) == [n |-> k, d |-> 1]

Fractions == [n : Int, d : Int]

\* the common factor of the denominators is taken out before multiplying
Sum[a \in Fractions, b \in Fractions] ==
    LET g == GCD[a.d, b.d]
    IN  R(a.n * (b.d \div g) + b.n * (a.d \div g), (a.d \div g) * b.d)
Difference[a \in Fractions, b \in Fractions] == Sum[a, [n |-> -b.n, d |-> b.d]]
Product[a \in Fractions, b \in Fractions] ==
    LET g == GCD[Abs(a.n), b.d]
        h == GCD[Abs(b.n), a.d]
    IN  R((a.n \div g) * (b.n \div h), (a.d \div h) * (b.d \div g))
Quotient[a \in Fractions, b \in Fractions] ==
    IF b.n < 0 THEN Product[a, [n |-> -b.d, d |-> -b.n]]
    ELSE Product[a, [n |-> b.d, d |-> b.n]]
Less[a \in Fractions, b \in Fractions] ==
    LET g == GCD[a.d, b.d]
    IN  a.n * (b.d \div g) < b.n * (a.d \div g)

RAdd(a, b) == Sum[a, b]
RSub(a, b) == Difference[a, b]
RMul(a, b) == Product[a, b]
RDiv(a, b) == Quotient[a, b]
RLess(a, b) == Less[a, b]
RLeq(a, b) == ~Less[b, a]

\* None, and the exception a float division by zero raises: tagged by a
\* denominator of 0, which no rational has
NoValue == [n |-> 0, d |-> 0]
ZeroDivisionError == [n |-> 1, d |-> 0]
IsNumber(v) == v.d > 0
NoPhase == "None"

\* ------------------------------------------------------------------------
\* envelope.py
\* ------------------------------------------------------------------------
\* INTERVAL ** s for INTERVAL = 2.0 ** (1.0 / 12.0), in thousandths,
\* for s in -12 .. 12
IntervalTable ==
    << 500, 530, 561, 595, 630, 667, 707, 749, 794, 841, 891, 944, 1000,
       1059, 1122, 1189, 1260, 1335, 1414, 1498, 1587, 1682, 1782, 1888, 2000 >>

IntervalPow(s) == R(IntervalTable[s + 13], 1000)

get_frequency_sustain_level(env, default_frequency) ==
    IF env.sustain_level = 0
    THEN default_frequency
    ELSE RMul(default_frequency, IntervalPow(env.sustain_level))

\* the resolved sustain level of get_value
SustainLevel(env, default_value) ==
    IF env.type = "amplitude"
    THEN IF env.sustain_level = 0 THEN default_value ELSE FromInt(env.sustain_level)
    ELSE get_frequency_sustain_level(env, default_value)

get_phase_inclusive(env, sample_index, number_of_samples) ==
    LET attack_end == RMul(env.attack_length, number_of_samples)
        decay_end == RAdd(attack_end, RMul(env.decay_length, number_of_samples))
        sustain_end == RAdd(decay_end, RMul(env.sustain_length, number_of_samples))
        release_end == RAdd(sustain_end, RMul(env.release_length, number_of_samples))
        i == FromInt(sample_index)
    IN  IF RLeq(i, attack_end) THEN "attack"
        ELSE IF RLeq(i, decay_end) THEN "decay"
        ELSE IF RLeq(i, sustain_end) THEN "sustain"
        ELSE IF RLeq(i, release_end) THEN "release"
        ELSE NoPhase

get_phase(env, sample_index, number_of_samples) ==
    LET attack_end == RMul(env.attack_length, number_of_samples)
        decay_end == RAdd(attack_end, RMul(env.decay_length, number_of_samples))
        sustain_end == RAdd(decay_end, RMul(env.sustain_length, number_of_samples))
        release_end == RAdd(sustain_end, RMul(env.release_length, number_of_samples))
        i == FromInt(sample_index)
    IN  IF RLess(i, attack_end) THEN "attack"
        ELSE IF RLess(i, decay_end) THEN "decay"
        ELSE IF RLess(i, sustain_end) THEN "sustain"
        ELSE IF RLess(i, release_end) THEN "release"
        ELSE NoPhase

\* a float division: raises on a zero divisor
FloatDiv(a, b) == IF b.n = 0 THEN ZeroDivisionError ELSE RDiv(a, b)

AttackValue_nofloor(env, new_value) == new_value

\* lines 54-57: a frequency of 0 is replaced by 1
AttackValue(env, new_value) ==
    IF env.type = "frequency" /\ new_value = Zero THEN One ELSE new_value

DecayValue_noclamp(new_value, sustain_level) == new_value

\* lines 62-65: the decay ramp is clamped at the sustain level
DecayValue(new_value, sustain_level) ==
    IF RLess(new_value, sustain_level) THEN sustain_level ELSE new_value

release_start_nosustain(attack_length, decay_length, sustain_length) ==
    RAdd(attack_length, decay_length)

\* line 39
release_start_of(attack_length, decay_length, sustain_length) ==
    RAdd(RAdd(attack_length, decay_length), sustain_length)

\* lines 72-73: the release ramp, whatever the phase of sample_index
ReleaseRamp(env, default_value, sample_index, number_of_samples) ==
    LET attack_length == RMul(env.attack_length, number_of_samples)
        decay_length == RMul(env.decay_length, number_of_samples)
        sustain_length == RMul(env.sustain_length, number_of_samples)
        release_length == RMul(env.release_length, number_of_samples)
        release_start == release_start_of(attack_length, decay_length, sustain_length)
        q == FloatDiv(RSub(FromInt(sample_index), release_start), release_length)
    IN  IF q = ZeroDivisionError THEN ZeroDivisionError
        ELSE RMul(RSub(One, q), SustainLevel(env, default_value))

get_value(env, default_value, sample_index, number_of_samples) ==
    LET attack_length == RMul(env.attack_length, number_of_samples)
        decay_length == RMul(env.decay_length, number_of_samples)
        decay_start == attack_length
        phase == get_phase(env, sample_index, number_of_samples)
        sustain_level == SustainLevel(env, default_value)
    IN  CASE phase = "attack" ->
               LET envelope == FloatDiv(FromInt(sample_index), attack_length)
               IN  IF envelope = ZeroDivisionError THEN ZeroDivisionError
                   ELSE AttackValue(env, RMul(default_value, envelope))
          [] phase = "decay" ->
               LET q == FloatDiv(RSub(FromInt(sample_index), decay_start), decay_length)
               IN  IF q = ZeroDivisionError THEN ZeroDivisionError
                   ELSE DecayValue(RMul(default_value, RSub(One, q)), sustain_level)
          [] phase = "sustain" -> sustain_level
          [] phase = "release" ->
               ReleaseRamp(env, default_value, sample_index, number_of_samples)
          [] OTHER -> NoValue

\* ------------------------------------------------------------------------
\* Floating point: a float is an integer count of units of 2^-FracBits whose
\* significand has at most MantBits bits
\* ------------------------------------------------------------------------
Pow2[e \in Nat] == IF e = 0 THEN 1 ELSE 2 * Pow2[e - 1]

BitLen[k \in Nat] == IF k = 0 THEN 0 ELSE 1 + BitLen[k \div 2]

Scale == Pow2[FracBits]

\* n / d (n >= 0, d > 0) rounded to the nearest integer, ties to even
RoundHalfEven[n \in Nat, d \in Nat] ==
    LET q == n \div d
        r == n % d
    IN  IF 2 * r > d \/ (2 * r = d /\ q % 2 = 1) THEN q + 1 ELSE q

\* the float nearest to n / d units (d > 0)
Nearest[n \in Int, d \in Nat] ==
    LET a == Abs(n)
        e == BitLen[a \div d] - MantBits
        u == IF e > 0 THEN Pow2[e] ELSE 1
        m == RoundHalfEven[a, d * u] * u
    IN  IF n < 0 THEN -m ELSE m

Round(n, d) == Nearest[n, d]

ToFloat(r) == Round(r.n * Scale, r.d)
IntToFloat(k) == Round(k * Scale, 1)
OneF == Scale

FAdd(a, b) == Round(a + b, 1)
FSub(a, b) == Round(a - b, 1)
FMul(a, b) == Round(a * b, Scale)
\* a float times an integer sample
FMulInt(a, k) == Round(a * k, 1)
Ratio[a \in Int, b \in Int] ==
    IF b < 0 THEN Round(-(a * Scale), -b) ELSE Round(a * Scale, b)
FDiv(a, b) == Ratio[a, b]

\* int(): truncation toward zero
Truncated[a \in Int] == IF a < 0 THEN -((-a) \div Scale) ELSE a \div Scale
TruncToInt(a) == Truncated[a]

\* math.pi and math.log(2)
PiF == ToFloat(R(355, 113))
Log2F == ToFloat(R(6931, 10000))

\* x2 * t / k, a factor of the nested series below
SeriesTerm(x2, t, k) == (x2 * t) \div (k * Scale)

\* sin and cos of z in [0, pi/2], by their Taylor series to z^9 and z^8
SinSeries[z \in Nat] ==
    LET z2 == (z * z) \div Scale
        t3 == Scale - SeriesTerm(z2, Scale, 72)
        t2 == Scale - SeriesTerm(z2, t3, 42)
        t1 == Scale - SeriesTerm(z2, t2, 20)
        t0 == Scale - SeriesTerm(z2, t1, 6)
    IN  (z * t0) \div Scale

CosSeries[z \in Nat] ==
    LET z2 == (z * z) \div Scale
        t3 == Scale - SeriesTerm(z2, Scale, 56)
        t2 == Scale - SeriesTerm(z2, t3, 30)
        t1 == Scale - SeriesTerm(z2, t2, 12)
    IN  Scale - SeriesTerm(z2, t1, 2)

\* math.sin and math.cos of a float x >= 0, reduced to the first quadrant
Sine[x \in Nat] ==
    LET y == x % (2 * PiF)
        h == PiF \div 2
    IN  Round(IF y <= h THEN SinSeries[y]
              ELSE IF y <= PiF THEN SinSeries[PiF - y]
              ELSE IF y <= PiF + h THEN -SinSeries[y - PiF]
              ELSE -SinSeries[2 * PiF - y], 1)

Cosine[x \in Nat] ==
    LET y == x % (2 * PiF)
        h == PiF \div 2
    IN  Round(IF y <= h THEN CosSeries[y]
              ELSE IF y <= PiF THEN -CosSeries[PiF - y]
              ELSE IF y <= PiF + h THEN -CosSeries[y - PiF]
              ELSE CosSeries[2 * PiF - y], 1)

SinF(x) == Sine[x]
CosF(x) == Cosine[x]

\* math.sinh of a float x >= 0, by its Taylor series to x^9
HyperbolicSine[x \in Nat] ==
    LET x2 == (x * x) \div Scale
        t3 == Scale + SeriesTerm(x2, Scale, 72)
        t2 == Scale + SeriesTerm(x2, t3, 42)
        t1 == Scale + SeriesTerm(x2, t2, 20)
        t0 == Scale + SeriesTerm(x2, t1, 6)
    IN  Round((x * t0) \div Scale, 1)

SinhF(x) == HyperbolicSine[x]

\* ------------------------------------------------------------------------
\* filter.py
\* ------------------------------------------------------------------------
NoEnvelope ==
    [type |-> "None", attack_length |-> Zero, decay_length |-> Zero,
     sustain_level |-> 0, sustain_length |-> Zero, release_length |-> Zero]

\* the attributes a0 .. b2 before the first _recalculate_coefficients
NoCoefficients == [a0 |-> 0, a1 |-> 0, a2 |-> 0, b0 |-> 0, b1 |-> 0, b2 |-> 0]

ZeroMemory ==
    [previous_input |-> 0, second_previous_input |-> 0,
     previous_output |-> 0, second_previous_output |-> 0]

\* Filter.__init__
Filter(sampling_rate, starting_frequency, bandwidth, gain, envelope) ==
    [sampling_rate |-> sampling_rate, gain |-> gain,
     starting_frequency |-> starting_frequency,
     center_frequency |-> FromInt(starting_frequency),
     bandwidth |-> bandwidth, envelope |-> envelope,
     memory |-> ZeroMemory, sample_number |-> 0, coef |-> NoCoefficients]

\* 10 ** float(gain / 40), gain an integer: the division floors
A(f) ==
    LET k == f.gain \div 40
    IN  IF k >= 0 THEN IntToFloat(10 ^ k) ELSE FDiv(OneF, IntToFloat(10 ^ (-k)))

w0(f) ==
    FDiv(FMul(FMulInt(PiF, 2), ToFloat(f.center_frequency)), IntToFloat(f.sampling_rate))

w0_cosine(f) == CosF(w0(f))

w0_sine(f) == SinF(w0(f))

\* w0_sine * sinh(log(2)/2 * bandwidth * w0 / w0_sine), for w0 = w
AlphaAt[w \in Nat, bandwidth \in Int] ==
    FMul(SinF(w),
         SinhF(FDiv(FMul(FMulInt(FDiv(Log2F, IntToFloat(2)), bandwidth), w), SinF(w))))

alpha(f) == AlphaAt[w0(f), f.bandwidth]

\* whether evaluating the coefficients raises: center_frequency is None
\* (TypeError) or sin(w0) is 0 (ZeroDivisionError)
CoefficientsRaise(f) ==
    \/ ~IsNumber(f.center_frequency)
    \/ f.center_frequency.n < 0
    \/ w0_sine(f) = 0

\* Peaking._recalculate_coefficients
\* lines 115-121, for alpha = al, A = Ag and w0_cosine = c
CoefficientsAt[al \in Int, Ag \in Int, c \in Int] ==
    LET a0 == FAdd(OneF, FDiv(al, Ag))
    IN  [a0 |-> a0,
         a1 |-> FDiv(FMulInt(c, -2), a0),
         a2 |-> FDiv(FSub(OneF, FDiv(al, Ag)), a0),
         b0 |-> FDiv(FAdd(OneF, FMul(al, Ag)), a0),
         b1 |-> FDiv(FMulInt(c, -2), a0),
         b2 |-> FDiv(FSub(OneF, FMul(al, Ag)), a0)]

PeakingCoefficients(f) == CoefficientsAt[alpha(f), A(f), w0_cosine(f)]

\* lines 96-98
NewSample(c, m, orig_sample) ==
    TruncToInt(
        FSub(FSub(FAdd(FAdd(FMulInt(c.b0, orig_sample),
                            FMulInt(c.b1, m.previous_input)),
                       FMulInt(c.b2, m.second_previous_input)),
                  FMulInt(c.a1, m.previous_output)),
             FMulInt(c.a2, m.second_previous_output)))

\* lines 93-94
DriveFrequency(f, sample_total) ==
    IF f.envelope # NoEnvelope
    THEN get_value(f.envelope, FromInt(f.starting_frequency), f.sample_number,
                   FromInt(sample_total))
    ELSE f.center_frequency

\* Filter.process, when nothing raises: the filter afterwards
process(f, orig_sample, sample_total) ==
    LET c == PeakingCoefficients(f)
        new_sample == NewSample(c, f.memory, orig_sample)
    IN  [f EXCEPT !.coef = c,
                  !.center_frequency = DriveFrequency(f, sample_total),
                  !.memory = [previous_input |-> orig_sample,
                              second_previous_input |-> f.memory.previous_input,
                              previous_output |-> new_sample,
                              second_previous_output |-> f.memory.previous_output],
                  !.sample_number = @ + 1]

reset_memory_keeps_output(f) ==
    [f EXCEPT !.memory = [ZeroMemory EXCEPT !.previous_output = f.memory.previous_output]]

\* Filter.reset_memory
reset_memory(f) == [f EXCEPT !.memory = ZeroMemory]

\* ------------------------------------------------------------------------
\* The Sound buffer the tones write to (sound.py)
\* ------------------------------------------------------------------------
Sound(sampling_rate) == [sampling_rate |-> sampling_rate, samples |-> << >>]

\* a non-negative fraction rounded to the nearest integer, halves upwards
RoundedToInt[r \in Fractions] == (2 * r.n + r.d) \div (2 * r.d)

convert_secs_to_samples(sound, seconds) ==
    RoundedToInt[RMul(seconds, FromInt(sound.sampling_rate))]

add_sample(sound, sample) == [sound EXCEPT !.samples = Append(@, sample)]

\* index counts from 0
combine_sample_at_index(sound, sample, index) ==
    [sound EXCEPT !.samples[index + 1] = @ + sample]

\* ------------------------------------------------------------------------
\* tone.py
\* ------------------------------------------------------------------------
BASE_FREQUENCY == 440

\* Tone.__convert_note_to_freq
convert_note_to_freq(note) == RMul(FromInt(BASE_FREQUENCY), IntervalPow(note))

\* Tone.__init__ and the __init__ of its subclasses; a Noise has no note and
\* no frequency
Tone(kind, note, amplitude, seconds, levels, amplitude_env, frequency_env) ==
    [kind |-> kind, note |-> note,
     frequency |-> IF kind = "Noise" THEN NoValue ELSE convert_note_to_freq(note),
     amplitude |-> amplitude, seconds |-> seconds, levels |-> levels,
     amplitude_env |-> amplitude_env, frequency_env |-> frequency_env]

\* self.seconds * sampling_rate, the total the envelopes are given
EnvelopeTotal(t, sampling_rate) == RMul(t.seconds, FromInt(sampling_rate))

_get_amplitude(t, sampling_rate, sample_index) ==
    IF t.amplitude_env # NoEnvelope
    THEN get_value(t.amplitude_env, FromInt(t.amplitude), sample_index,
                   EnvelopeTotal(t, sampling_rate))
    ELSE FromInt(t.amplitude)

_get_frequency(t, sampling_rate, sample_index) ==
    IF t.frequency_env # NoEnvelope
    THEN get_value(t.frequency_env, t.frequency, sample_index,
                   EnvelopeTotal(t, sampling_rate))
    ELSE t.frequency

\* phases are counted in cycles: cycle_size, 2 pi radians, is one cycle
cycle_size == One

\* lines 206-210
PhaseIncrement[frequency \in Fractions, sampling_rate \in Nat] ==
    LET seconds_per_cycle == RDiv(One, frequency)
        samples_per_cycle == RMul(seconds_per_cycle, FromInt(sampling_rate))
    IN  RDiv(cycle_size, samples_per_cycle)

\* math.sin of a phase given in cycles
SineOfCycles[phase \in Fractions] ==
    SinF(Round(2 * PiF * (phase.n % phase.d), phase.d))

\* what _get_sine_value gives: a raised exception, or the tuple it returns
\* with the increment it added
SineValues == [raised : BOOLEAN, sine_value : Int, phase : Fractions, increment : Fractions]

Raised == [raised |-> TRUE, sine_value |-> 0, phase |-> NoValue, increment |-> NoValue]

\* Tone._get_sine_value; 1.0 / frequency raises when frequency is None or 0
SineValueAt[frequency \in Fractions, sampling_rate \in Nat, previous_phase \in Fractions] ==
    IF ~IsNumber(frequency) \/ frequency.n = 0 \/ ~IsNumber(previous_phase)
    THEN Raised
    ELSE LET phase_increment == PhaseIncrement[frequency, sampling_rate]
             phase == RAdd(previous_phase, phase_increment)
         IN  [raised |-> FALSE, sine_value |-> SineOfCycles[phase], phase |-> phase,
              increment |-> phase_increment]

_get_sine_value(t, sampling_rate, sample_index, previous_phase) ==
    SineValueAt[_get_frequency(t, sampling_rate, sample_index), sampling_rate,
                previous_phase]

\* int(sine_value * amplitude), amplitude a number
IntOfProduct[sine_value \in Int, amplitude \in Fractions] ==
    LET n == sine_value * amplitude.n
        d == Scale * amplitude.d
    IN  IF n < 0 THEN -((-n) \div d) ELSE n \div d

NoSample == [raised |-> TRUE, sample |-> 0, phase |-> NoValue]

\* SineTone._create_sample
SineSample[amplitude \in Fractions, sv \in SineValues] ==
    IF sv.raised \/ ~IsNumber(amplitude) THEN NoSample
    ELSE [raised |-> FALSE, sample |-> IntOfProduct[sv.sine_value, amplitude],
          phase |-> sv.phase]

\* SquareTone._create_sample: math.copysign(1, sine_value) is 1 or -1
SquareSample[amplitude \in Fractions, sv \in SineValues] ==
    IF sv.raised THEN NoSample
    ELSE IF sv.sine_value = 0 THEN [raised |-> FALSE, sample |-> 0, phase |-> sv.phase]
    ELSE IF ~IsNumber(amplitude) THEN NoSample
    ELSE [raised |-> FALSE,
          sample |-> IntOfProduct[IF sv.sine_value < 0 THEN -Scale ELSE Scale, amplitude],
          phase |-> sv.phase]

\* HarmonicSawTone._create_sample, line 317: the sine value of harmonic i
HarmonicSineValue(t, sampling_rate, sample_index, previous_phase, i) ==
    _get_sine_value(t, sampling_rate, sample_index, previous_phase)

\* lines 313-320: the sum over the harmonics i .. levels
SawSum[amplitude \in Fractions, sine_value \in Int, i \in Nat, levels \in Nat] ==
    IF i > levels THEN 0
    ELSE IntOfProduct[sine_value, RDiv(amplitude, FromInt(i))]
         + SawSum[amplitude, sine_value, i + 1, levels]

\* HarmonicSawTone._create_sample: every pass of the loop has the same
\* amplitude and, by line 317, the same sine value and phase
SawSample[amplitude \in Fractions, sv \in SineValues, levels \in Nat] ==
    IF sv.raised \/ ~IsNumber(amplitude) THEN NoSample
    ELSE [raised |-> FALSE, sample |-> SawSum[amplitude, sv.sine_value, 1, levels],
          phase |-> sv.phase]

\* Noise._create_sample, raw_sample = random.uniform(0, 1)
NoiseSample(t, raw_sample) ==
    [raised |-> FALSE, sample |-> IntOfProduct[Scale, RMul(raw_sample, FromInt(t.amplitude))],
     phase |-> NoValue]

\* _create_sample of the tone's class
_create_sample(t, sampling_rate, sample_index, previous_phase, raw_sample) ==
    CASE t.kind = "Sine" ->
           SineSample[_get_amplitude(t, sampling_rate, sample_index),
                      _get_sine_value(t, sampling_rate, sample_index, previous_phase)]
      [] t.kind = "Square" ->
           SquareSample[_get_amplitude(t, sampling_rate, sample_index),
                        _get_sine_value(t, sampling_rate, sample_index, previous_phase)]
      [] t.kind = "HarmonicSaw" ->
           SawSample[_get_amplitude(t, sampling_rate, sample_index),
                     HarmonicSineValue(t, sampling_rate, sample_index, previous_phase,
                                       t.levels),
                     t.levels]
      [] t.kind = "Noise" -> NoiseSample(t, raw_sample)

StartPhase_carried == tPhase

\* line 186: no previous sample so start at 0
StartPhase == Zero

NextIndex_stuck(index) == index

\* line 117
NextIndex(index) == index + 1

\* lines 113-116: where combine_tone puts a sample
Combined(snd, sample, index) ==
    IF index < Len(snd.samples)
    THEN combine_sample_at_index(snd, sample, index)
    ELSE add_sample(snd, sample)

\* ------------------------------------------------------------------------
\* Envelope evaluation: one envelope queried at sample_index 0, 1, 2, ...
\* ------------------------------------------------------------------------
NoCall == [index |-> -1, phase |-> NoPhase, value |-> NoValue]

EnvelopeConfigs ==
    { [type |-> t, attack_length |-> R(a, PropDen), decay_length |-> R(d, PropDen),
       sustain_level |-> sl, sustain_length |-> R(s, PropDen),
       release_length |-> R(r, PropDen)] :
        t \in {"amplitude", "frequency"}, a \in 0 .. PropDen, d \in 0 .. PropDen,
        s \in 0 .. PropDen, r \in 0 .. PropDen, sl \in {-12, 0, 3} }

ProportionSum(env) ==
    RAdd(RAdd(env.attack_length, env.decay_length),
         RAdd(env.sustain_length, env.release_length))

Totals == { R(k, 2) : k \in 0 .. 2 * MaxTotal }

BaseValues == { FromInt(-2), FromInt(1), FromInt(10) }

\* the envelope variables while the envelope is not the subject
EnvelopeIdle ==
    /\ eEnv = NoEnvelope
    /\ eBase = Zero
    /\ eTotal = Zero
    /\ eIndex = 0
    /\ eLast = NoCall
    /\ ePrev = NoCall

NoFilterCall ==
    [called |-> FALSE, input |-> 0, raised |-> FALSE, output |-> 0,
     compared |-> FALSE, refRaised |-> FALSE, refOutput |-> 0]

\* the inputs of a filtering pass
SamplingRates == {16}
StartingFrequencies == {2, 3}
Bandwidths == {1, 2}
Gains == {-40, 0, 40}
Samples == {-3, 1, 3}
SampleTotals == {2, 4}

Env(t, a, d, sl, s, r) ==
    [type |-> t, attack_length |-> R(a, 4), decay_length |-> R(d, 4),
     sustain_level |-> sl, sustain_length |-> R(s, 4), release_length |-> R(r, 4)]

DriveEnvelopes ==
    { NoEnvelope, Env("frequency", 2, 1, 3, 0, 1), Env("frequency", 0, 2, -12, 1, 1) }

NoToneStep == [sample_index |-> -1, envTotal |-> NoValue, increments |-> << >>]

\* the tones of a session
SoundRates == {8000}

\* k / d samples at 8000 samples per second
Seconds(k, d) == R(k, d * 8000)

InitialTones ==
    [ sine |-> Tone("Sine", 0, 50, Seconds(3, 1), 1, NoEnvelope, NoEnvelope),
      square |-> Tone("Square", 12, 30, Seconds(8, 3), 1,
                      Env("amplitude", 1, 1, 0, 1, 1), NoEnvelope),
      saw |-> Tone("HarmonicSaw", 0, 60, Seconds(4, 1), 2,
                   NoEnvelope, Env("frequency", 2, 1, 3, 0, 1)),
      noise |-> Tone("Noise", 0, 20, Seconds(2, 1), 1, NoEnvelope, NoEnvelope),
      short |-> Tone("Sine", -12, 40, Seconds(4, 1), 1,
                     Env("amplitude", 1, 1, 2, 1, 0), NoEnvelope) ]

ToneNames == DOMAIN InitialTones

StartPositions == { Seconds(k, 1) : k \in 0 .. MaxStart }

\* random.uniform(0, 1)
RawSamples == { Zero, R(3, 4) }

NoRun == [finished |-> FALSE, samples |-> << >>, run |-> -1]

\* the tone variables while no tone is generated
ToneIdle ==
    /\ tones = InitialTones
    /\ tSound \in { Sound(sampling_rate) : sampling_rate \in SoundRates }
    /\ tPc = "idle"
    /\ tCur = "sine"
    /\ tMode = "add"
    /\ tStart = 0
    /\ tIndex = 0
    /\ tCount = 0
    /\ tI = 0
    /\ tPhase = Zero
    /\ tBuf0 = << >>
    /\ tGen = << >>
    /\ tFirst = [n \in ToneNames |-> NoRun]
    /\ tRuns = 0
    /\ tLast = NoToneStep

\* the filter variables while the filter is not the subject
FilterIdle ==
    /\ flt \in { Filter(sampling_rate, 2, 1, 0, NoEnvelope) : sampling_rate \in SamplingRates }
    /\ ref = flt
    /\ fTotal = 0
    /\ fCalls = 0
    /\ fMode = "stream"
    /\ fLast = NoFilterCall

InitEnvelope ==
    /\ eEnv \in { e \in EnvelopeConfigs : RLeq(ProportionSum(e), One) }
    /\ eBase \in BaseValues
    /\ eTotal \in Totals
    /\ eIndex = 0
    /\ eLast = NoCall
    /\ ePrev = NoCall
    /\ FilterIdle
    /\ ToneIdle

Evaluate ==
    /\ RLeq(FromInt(eIndex), RAdd(eTotal, One))
    /\ eLast' = [index |-> eIndex,
                 phase |-> get_phase(eEnv, eIndex, eTotal),
                 value |-> get_value(eEnv, eBase, eIndex, eTotal)]
    /\ ePrev' = eLast
    /\ eIndex' = eIndex + 1
    /\ UNCHANGED << eEnv, eBase, eTotal >>
    /\ UNCHANGED << filterVars, toneVars >>

NextEnvelope == Evaluate

SpecEnvelope == InitEnvelope /\ [][NextEnvelope]_vars

\* ------------------------------------------------------------------------
\* One filtering pass: a Peaking filter is fed samples one by one; its
\* memory may be reset, after which a freshly constructed filter with the
\* same arguments is fed the same samples beside it
\* ------------------------------------------------------------------------
InitFilter ==
    /\ flt \in { Filter(sr, sf, bw, g, e) :
                    sr \in SamplingRates, sf \in StartingFrequencies, bw \in Bandwidths, g \in Gains,
                    e \in DriveEnvelopes }
    /\ ref = flt
    /\ fTotal \in SampleTotals
    /\ fCalls = 0
    /\ fMode = "stream"
    /\ fLast = NoFilterCall
    /\ EnvelopeIdle
    /\ ToneIdle

\* flt.process(x, fTotal), and ref.process(x, fTotal) once ref stands beside it
Process(x) ==
    /\ fCalls < MaxCalls
    /\ fCalls' = fCalls + 1
    /\ LET raised == CoefficientsRaise(flt)
           refRaised == IF fMode = "stream" THEN raised ELSE CoefficientsRaise(ref)
       IN  /\ flt' = IF raised THEN flt ELSE process(flt, x, fTotal)
           /\ ref' = IF fMode = "stream" THEN flt'
                     ELSE IF refRaised THEN ref ELSE process(ref, x, fTotal)
           /\ fLast' = [called |-> TRUE, input |-> x,
                        raised |-> raised,
                        output |-> flt'.memory.previous_output,
                        compared |-> fMode = "restarted",
                        refRaised |-> refRaised,
                        refOutput |-> ref'.memory.previous_output]
    /\ UNCHANGED << fTotal, fMode >>

ResetMemory ==
    /\ flt' = reset_memory(flt)
    /\ ref' = Filter(flt.sampling_rate, flt.starting_frequency, flt.bandwidth,
                     flt.gain, flt.envelope)
    /\ fMode' = "restarted"
    /\ fLast' = NoFilterCall
    /\ UNCHANGED << fTotal, fCalls >>

NextFilter ==
    \/ (\E x \in Samples : Process(x)) /\ UNCHANGED << envVars, toneVars >>
    \/ ResetMemory /\ UNCHANGED << envVars, toneVars >>

SpecFilter == InitFilter /\ [][NextFilter]_vars

\* ------------------------------------------------------------------------
\* Tone generation: tones are added to and combined with one Sound, one
\* generation pass after the other, each pass sample by sample
\* ------------------------------------------------------------------------
InitTone ==
    /\ ToneIdle
    /\ EnvelopeIdle
    /\ FilterIdle

\* the first lines of __generate, run when the pass is asked for a sample
StartGenerate(name) ==
    /\ tPc = "idle"
    /\ tRuns < MaxRuns
    /\ tPc' = "running"
    /\ tCur' = name
    /\ tCount' = convert_secs_to_samples(tSound, tones[name].seconds)
    /\ tPhase' = StartPhase
    /\ tI' = 0
    /\ tGen' = << >>
    /\ tBuf0' = tSound.samples
    /\ tLast' = NoToneStep
    /\ UNCHANGED << tones, tSound, tFirst, tRuns >>

\* tone.add_tone(sound)
AddTone(name) ==
    /\ StartGenerate(name)
    /\ tMode' = "add"
    /\ tStart' = 0
    /\ tIndex' = 0

\* tone.combine_tone(sound, start_position)
CombineTone(name, start_position) ==
    /\ StartGenerate(name)
    /\ tMode' = "combine"
    /\ tStart' = convert_secs_to_samples(tSound, start_position)
    /\ tIndex' = convert_secs_to_samples(tSound, start_position)

\* what the last _create_sample was given
ToneStep(t, sampling_rate, sample_index, previous_phase) ==
    [sample_index |-> sample_index,
     envTotal |-> IF t.kind # "Noise"
                     /\ (t.amplitude_env # NoEnvelope \/ t.frequency_env # NoEnvelope)
                  THEN EnvelopeTotal(t, sampling_rate) ELSE NoValue,
     increments |-> IF t.kind = "HarmonicSaw"
                    THEN [k \in 1 .. t.levels |->
                            HarmonicSineValue(t, sampling_rate, sample_index,
                                              previous_phase, k).increment]
                    ELSE << >>]

\* one pass of the loop of __generate and of the loop that consumes it
Step(raw_sample) ==
    /\ tPc = "running"
    /\ tI < tCount
    /\ \E r \in { _create_sample(tones[tCur], tSound.sampling_rate, tI, tPhase,
                                  raw_sample) } :
          IF r.raised
          THEN /\ tPc' = "raised"
               /\ UNCHANGED << tSound, tIndex, tI, tPhase, tGen >>
          ELSE /\ tPc' = "running"
               /\ tSound' = IF tMode = "add" THEN add_sample(tSound, r.sample)
                            ELSE Combined(tSound, r.sample, tIndex)
               /\ tIndex' = IF tMode = "add" THEN tIndex ELSE NextIndex(tIndex)
               /\ tI' = tI + 1
               /\ tPhase' = r.phase
               /\ tGen' = Append(tGen, r.sample)
    /\ tLast' = ToneStep(tones[tCur], tSound.sampling_rate, tI, tPhase)
    /\ UNCHANGED << tones, tCur, tMode, tStart, tCount, tBuf0, tFirst, tRuns >>

\* xrange(sample_count) is exhausted
Finish ==
    /\ tPc = "running"
    /\ tI = tCount
    /\ tPc' = "done"
    /\ UNCHANGED << tones, tSound, tCur, tMode, tStart, tIndex, tCount, tI, tPhase,
                    tBuf0, tGen, tFirst, tRuns, tLast >>

\* add_tone or combine_tone returns, or the exception leaves it
Return ==
    /\ tPc \in {"done", "raised"}
    /\ tPc' = "idle"
    /\ tRuns' = tRuns + 1
    /\ tFirst' = IF tFirst[tCur].finished THEN tFirst
                 ELSE [tFirst EXCEPT ![tCur] = [finished |-> TRUE, samples |-> tGen,
                                                run |-> tRuns]]
    /\ UNCHANGED << tones, tSound, tCur, tMode, tStart, tIndex, tCount, tI, tPhase,
                    tBuf0, tGen, tLast >>

NextTone ==
    \/ (\E name \in ToneNames : AddTone(name)) /\ UNCHANGED << envVars, filterVars >>
    \/ (\E name \in ToneNames, start_position \in StartPositions :
            CombineTone(name, start_position)) /\ UNCHANGED << envVars, filterVars >>
    \/ (\E raw_sample \in (IF tones[tCur].kind = "Noise" THEN RawSamples ELSE {Zero}) :
            Step(raw_sample)) /\ UNCHANGED << envVars, filterVars >>
    \/ Finish /\ UNCHANGED << envVars, filterVars >>
    \/ Return /\ UNCHANGED << envVars, filterVars >>

SpecTone == InitTone /\ [][NextTone]_vars

\* ------------------------------------------------------------------------
\* Properties of the envelope
\* ------------------------------------------------------------------------
\* the sustain target as the specification resolves it
ResolvedSustainTarget ==
    IF eEnv.sustain_level = 0 THEN eBase
    ELSE IF eEnv.type = "amplitude" THEN FromInt(eEnv.sustain_level)
    ELSE RMul(eBase, IntervalPow(eEnv.sustain_level))

ReleaseEnd ==
    RMul(ProportionSum(eEnv), eTotal)

AttackStartValue == IF eEnv.type = "amplitude" THEN Zero ELSE One

\* C5 as stated: for every envelope with non-negative proportions summing to
\* at most 1 and total_samples > 0, get_value at sample_index 0 is 0 for an
\* Amplitude envelope and 1 for a Frequency envelope.
C5_IndexZeroAnyEnvelope ==
    (eLast.index = 0 /\ RLess(Zero, eTotal)) => eLast.value = AttackStartValue

\* C5 amended: the same, for the envelopes whose attack proportion is
\* positive, so that sample_index 0 lies in the attack phase.
C5_IndexZeroInAttack ==
    (eLast.index = 0 /\ RLess(Zero, eTotal) /\ RLess(Zero, eEnv.attack_length))
        => eLast.value = AttackStartValue

C5_Witness ==
    /\ eLast.index = 0
    /\ eLast.phase = "attack"
    /\ eEnv.type = "frequency"
    /\ eLast.value = One

\* C6: for a positive base value, over the indices of the decay phase the
\* value is non-increasing in sample_index and never below the resolved
\* sustain target.
C6_DecayMonotoneAboveSustain ==
    (RLess(Zero, eBase) /\ eLast.phase = "decay")
        => /\ IsNumber(eLast.value)
           /\ RLeq(ResolvedSustainTarget, eLast.value)
           /\ (ePrev.phase = "decay" => RLeq(eLast.value, ePrev.value))

C6_Witness ==
    /\ RLess(Zero, eBase)
    /\ eLast.phase = "decay"
    /\ ePrev.phase = "decay"
    /\ RLess(eLast.value, ePrev.value)
    /\ RLess(ResolvedSustainTarget, eLast.value)

\* C7: for a positive sustain target, over the indices of the release phase
\* the value is non-increasing, never above the sustain target, and strictly
\* positive at every in-phase index, the last one included; the ramp formula
\* is exactly 0 only at sample_index = release_end.
C7_ReleaseMonotonePositive ==
    (RLess(Zero, ResolvedSustainTarget) /\ eLast.phase = "release")
        => /\ IsNumber(eLast.value)
           /\ RLeq(eLast.value, ResolvedSustainTarget)
           /\ RLess(Zero, eLast.value)
           /\ (ePrev.phase = "release" => RLeq(eLast.value, ePrev.value))
           /\ \A j \in 0 .. (2 * MaxTotal + 2) :
                 (ReleaseRamp(eEnv, eBase, j, eTotal) = Zero) <=> (FromInt(j) = ReleaseEnd)

C7_Witness ==
    /\ RLess(Zero, ResolvedSustainTarget)
    /\ eLast.phase = "release"
    /\ ePrev.phase = "release"
    /\ RLess(eLast.value, ePrev.value)
    /\ RLeq(ReleaseEnd, FromInt(eLast.index + 1))
    /\ RLess(Zero, eEnv.sustain_length)

\* ------------------------------------------------------------------------
\* Properties of the filter
\* ------------------------------------------------------------------------
\* C1: for a Peaking filter with a drive envelope, after every call of
\* process that returns, the stored coefficients are the coefficient
\* function of the filter's current center_frequency, bandwidth, gain and
\* sampling_rate.
C1_CoefficientsCurrent ==
    (fLast.called /\ ~fLast.raised /\ flt.envelope # NoEnvelope
        /\ ~CoefficientsRaise(flt))
        => flt.coef = PeakingCoefficients(flt)

\* C2: a freshly constructed Peaking filter with gain 0 and no drive envelope
\* returns every input sample unchanged, and its delay memory holds the
\* same samples on the output side as on the input side.
C2_UnityGainIdentity ==
    (fMode = "stream" /\ fLast.called /\ flt.gain = 0 /\ flt.envelope = NoEnvelope)
        => /\ fLast.output = fLast.input
           /\ flt.memory.previous_output = flt.memory.previous_input
           /\ flt.memory.second_previous_output = flt.memory.second_previous_input

SameOutcome ==
    /\ fLast.raised = fLast.refRaised
    /\ ~fLast.raised => fLast.output = fLast.refOutput

\* C3 as stated: after reset_memory, a filter that has processed samples
\* gives, sample for sample, the output of a freshly constructed filter with
\* the same starting_frequency, bandwidth, gain, sampling rate and envelope.
C3_ResetEqualsFresh == fLast.compared => SameOutcome

\* C3 amended: the same, for a filter that has no drive envelope.
C3_ResetEqualsFreshNoEnvelope ==
    (fLast.compared /\ flt.envelope = NoEnvelope) => SameOutcome

C3_Witness ==
    /\ fLast.compared
    /\ flt.envelope = NoEnvelope
    /\ ~fLast.raised
    /\ fLast.output # 0
    /\ ref.sample_number >= 2
    /\ flt.sample_number > ref.sample_number

\* ------------------------------------------------------------------------
\* Tone generation claims
\* ------------------------------------------------------------------------
\* the frequency the envelope gives the sample that was last created
LastFrequency == _get_frequency(tones[tCur], tSound.sampling_rate, tLast.sample_index)

SawStepTaken ==
    /\ tones[tCur].kind = "HarmonicSaw"
    /\ tLast.sample_index >= 0
    /\ tLast.increments # << >>

\* C4: in a HarmonicSaw sample with levels >= 2, harmonic k advances its phase
\* by the increment of k times the fundamental frequency of that sample
C4_HarmonicOwnMultiple ==
    SawStepTaken =>
        \A k \in 1 .. tones[tCur].levels :
            tLast.increments[k]
                = PhaseIncrement[RMul(FromInt(k), LastFrequency), tSound.sampling_rate]

\* what the code does instead: every harmonic has the increment of the first
C4_HarmonicsShareIncrement ==
    SawStepTaken =>
        \A k \in 1 .. tones[tCur].levels :
            tLast.increments[k] = PhaseIncrement[LastFrequency, tSound.sampling_rate]

C4_Witness ==
    /\ SawStepTaken
    /\ tones[tCur].levels >= 2
    /\ tPc = "done"

\* tone sample i mixed at start + i while inside the buffer, appended otherwise
ExpectedMix(buffer, start, generated) ==
    IF start >= Len(buffer) THEN buffer \o generated
    ELSE LET last == IF start + Len(generated) > Len(buffer)
                     THEN start + Len(generated) ELSE Len(buffer)
         IN  [j \in 1 .. last |->
                IF j <= start THEN buffer[j]
                ELSE IF j - start > Len(generated) THEN buffer[j]
                ELSE IF j <= Len(buffer) THEN buffer[j] + generated[j - start]
                ELSE generated[j - start]]

\* C8: combine_tone with a start at or beyond the end of the buffer leaves what
\* add_tone leaves, the old samples followed by the generated ones; for any
\* start, sample i is added at start + i inside the buffer and appended
\* otherwise, and the samples before start are never changed
C8_CombineBeyondEndAppends ==
    /\ tMode = "add" => tSound.samples = tBuf0 \o tGen
    /\ (tMode = "combine" /\ tStart >= Len(tBuf0)) => tSound.samples = tBuf0 \o tGen
    /\ tMode = "combine" => tSound.samples = ExpectedMix(tBuf0, tStart, tGen)
    /\ \A j \in 1 .. Len(tBuf0) :
          (tMode = "combine" /\ j <= tStart) =>
              /\ j <= Len(tSound.samples)
              /\ tSound.samples[j] = tBuf0[j]

C8_Witness ==
    /\ tPc = "done"
    /\ tMode = "combine"
    /\ tBuf0 # << >>
    /\ tStart > Len(tBuf0)
    /\ Len(tGen) > 1
    /\ \E j \in 1 .. Len(tGen) : tGen[j] # 0
    /\ \E j \in 1 .. Len(tBuf0) : tBuf0[j] # 0

\* the mixing case of C8: the tone starts inside the buffer and outruns it
C8_OverlapReached ==
    /\ tPc = "done"
    /\ tMode = "combine"
    /\ 0 < tStart
    /\ tStart < Len(tBuf0)
    /\ tStart + Len(tGen) > Len(tBuf0)
    /\ \A j \in 1 .. Len(tGen) : tGen[j] # 0

\* C9: every generation pass starts from phase 0; a non-noise tone generated
\* again, whatever was generated in between, gives the samples of its first
\* pass; and no pass changes a tone or its envelopes
C9_PhaseLocalToPass ==
    /\ (tPc = "running" /\ tI = 0) => tPhase = Zero
    /\ (tPc \in {"done", "raised"} /\ tFirst[tCur].finished
           /\ tones[tCur].kind # "Noise") => tGen = tFirst[tCur].samples
    /\ tones = InitialTones

C9_Witness ==
    /\ tPc = "done"
    /\ tones[tCur].kind # "Noise"
    /\ tFirst[tCur].finished
    /\ tFirst[tCur].run = 0
    /\ tRuns = 2
    /\ \E other \in ToneNames \ {tCur} :
          /\ tFirst[other].run = 1
          /\ tones[other].kind # "Noise"
    /\ Len(tGen) > 1
    /\ \E j \in 1 .. Len(tGen) : tGen[j] # 0

EnvelopeStepTaken ==
    /\ tLast.sample_index >= 0
    /\ IsNumber(tLast.envTotal)

\* C10: at every sample index the envelopes of a tone are evaluated with a
\* total equal to sample_count, the number of samples the pass produces
C10_TotalIsSampleCount ==
    EnvelopeStepTaken => tLast.envTotal = FromInt(tCount)

\* what the code passes: seconds * sampling_rate, not converted to samples
C10_TotalIsUnroundedProduct ==
    EnvelopeStepTaken =>
        tLast.envTotal = RMul(tones[tCur].seconds, FromInt(tSound.sampling_rate))

C10_Witness ==
    /\ EnvelopeStepTaken
    /\ tLast.envTotal.d > 1
    /\ tPc = "done"

\* ------------------------------------------------------------------------
\* Properties of the envelope outside its phases and at empty phases
\* ------------------------------------------------------------------------
\* C11: whenever get_value returns for a sample_index >= 0, the indices at
\* or beyond release_end included, it returns a number, not None
C11_ReturnsNumber ==
    (eLast.index >= 0 /\ eLast.value # ZeroDivisionError) => IsNumber(eLast.value)

\* what the code does: None exactly at the indices at or beyond release_end
C11_NoneBeyondReleaseEnd ==
    eLast.index >= 0 =>
        ((eLast.value = NoValue) <=> RLeq(ReleaseEnd, FromInt(eLast.index)))

C11_Witness ==
    /\ eLast.index >= 0
    /\ RLess(Zero, ReleaseEnd)
    /\ RLeq(ReleaseEnd, FromInt(eLast.index))
    /\ eLast.value = NoValue

\* the length in samples of the phase the last call selected
SelectedPhaseLength ==
    CASE eLast.phase = "attack" -> RMul(eEnv.attack_length, eTotal)
      [] eLast.phase = "decay" -> RMul(eEnv.decay_length, eTotal)
      [] eLast.phase = "sustain" -> RMul(eEnv.sustain_length, eTotal)
      [] eLast.phase = "release" -> RMul(eEnv.release_length, eTotal)
      [] OTHER -> One

\* C12: for non-negative proportions, total_samples >= 0 and sample_index >= 0
\* a phase of length 0 is never the phase selected, so that get_value never
\* divides by zero
C12_NoZeroLengthPhaseSelected ==
    eLast.index >= 0 =>
        /\ RLess(Zero, SelectedPhaseLength)
        /\ eLast.value # ZeroDivisionError

C12_Witness ==
    /\ eLast.index = 0
    /\ eEnv.attack_length = Zero
    /\ RLess(Zero, eTotal)
    /\ eLast.phase = "decay"
    /\ IsNumber(eLast.value)

\* the case of C12 with no samples at all
C12_EmptyTotalReached ==
    /\ eLast.index = 0
    /\ eTotal = Zero
    /\ RLess(Zero, ProportionSum(eEnv))
    /\ eLast.phase = NoPhase

====
